---- MODULE Spec2Model ----
\* A model of the code_kg knowledge-graph core: the Graph entity store
\* (src/code_kg/graph.py), the heuristic extractor
\* (src/code_kg/extractors/heuristic.py) and the scanner (src/code_kg/scanner.py).
\*
\* Python strings are modelled as sequences of one-character strings, so that
\* identifiers built by string formatting (f"symbol:{file_path}:{name}") can
\* coincide exactly when the Python strings coincide.
EXTENDS Integers, Sequences, FiniteSets, TLC

VARIABLES
    nodes,        \* Graph._nodes: id -> Node
    out_edges,    \* Graph._out_edges: id -> set of Edge
    in_edges,     \* Graph._in_edges: id -> set of Edge
    call,         \* the last Graph call made by the client: operation and arguments
    result,       \* what that call returned or raised
    x_last,       \* extractor harness: the (file_path, text) last extracted
    x_once,       \* extractor harness: the graph right after that extraction
    x_runs,       \* extractor harness: how many times in a row it has run
    c_done,       \* corpus: the files extract was called on, in order
    c_raised,     \* corpus: <<path, exception>> of the extract calls that raised
    s_order,      \* scan: the files yielded by walk_paths, in visiting order
    s_unreadable, \* scan: the paths whose open()/read() raises
    s_extractors, \* scan: Scanner.extractors, in registration order
    s_text,       \* scan: the text read from the file being processed
    s_pc,         \* scan: position in Scanner.scan
    s_fi,         \* scan: index of the file being processed
    s_ei,         \* scan: index of the extractor being consulted
    s_log,        \* scan: the supports/extract invocations made so far
    s_raised,     \* scan: the exception that left Scanner.scan, or "none"
    f_path,       \* filter: the path given to should_include_file
    f_extensions, \* filter: Scanner.extensions ([given |-> FALSE] for None)
    f_ignores,    \* filter: Scanner.ignores
    f_isfile,     \* filter: the paths that are regular files on disk
    f_result,     \* filter: <<b>> once should_include_file returned b
    w_roots,      \* walk: the paths argument of walk_paths
    w_ri,         \* walk: index of the next root path
    w_root,       \* walk: the directory root being walked
    w_stack,      \* walk: os.walk's pending sibling directories, innermost first
    w_dir,        \* walk: <<dirpath>> while its filenames are looped over
    w_files,      \* walk: the filenames of dirpath not looped over yet
    w_seen,       \* walk: <<root, path, "dir"|"file">> for all os.walk listed or tested
    w_yielded     \* walk: the paths yielded so far, in order

graph_vars == <<nodes, out_edges, in_edges>>
client_vars == <<call, result>>
corpus_vars == <<c_done, c_raised>>
extract_vars == <<x_last, x_once, x_runs, corpus_vars>>
scan_vars == <<s_order, s_unreadable, s_extractors, s_text, s_pc, s_fi, s_ei, s_log, s_raised>>
walk_vars == <<w_roots, w_ri, w_root, w_stack, w_dir, w_files, w_seen, w_yielded>>
filter_vars == <<f_path, f_extensions, f_ignores, f_isfile, f_result, walk_vars>>
vars == <<nodes, out_edges, in_edges, call, result, x_last, x_once, x_runs,
          c_done, c_raised,
          s_order, s_unreadable, s_extractors, s_text, s_pc, s_fi, s_ei, s_log, s_raised,
          f_path, f_extensions, f_ignores, f_isfile, f_result,
          w_roots, w_ri, w_root, w_stack, w_dir, w_files, w_seen, w_yielded>>

-----------------------------------------------------------------------------
\* Characters and strings

LowerLetters == <<"a","b","c","d","e","f","g","h","i","j","k","l","m",
                  "n","o","p","q","r","s","t","u","v","w","x","y","z">>

UpperLetters == <<"A","B","C","D","E","F","G","H","I","J","K","L","M",
                  "N","O","P","Q","R","S","T","U","V","W","X","Y","Z">>

Digits == <<"0","1","2","3","4","5","6","7","8","9">>

Range(s) == {s[i] : i \in DOMAIN s}

IsUpper(c) == c \in Range(UpperLetters)

IsAlpha(c) == c \in Range(LowerLetters) \cup Range(UpperLetters)

IsDigit(c) == c \in Range(Digits)

\* [A-Za-z_]
IsIdentStart(c) == IsAlpha(c) \/ c = "_"

\* \w
IsWord(c) == IsAlpha(c) \/ IsDigit(c) \/ c = "_"

\* \s, and the characters str.strip() and str.split() treat as whitespace
IsSpace(c) == c \in {" ", "\t"}

\* str.lower() on one character
LowerChar(c) ==
    IF IsUpper(c)
    THEN LowerLetters[CHOOSE i \in DOMAIN UpperLetters : UpperLetters[i] = c]
    ELSE c

\* str.lower()
Lower(s) == [i \in DOMAIN s |-> LowerChar(s[i])]

\* s[i:] for a 1-based position i
From(s, i) == SubSeq(s, i, Len(s))

\* s.startswith(p) at 1-based position i
StartsAt(s, i, p) ==
    /\ i + Len(p) - 1 <= Len(s)
    /\ \A k \in 1..Len(p) : s[i + k - 1] = p[k]

\* the same, ignoring letter case (re.IGNORECASE)
StartsAtNoCase(s, i, p) ==
    /\ i + Len(p) - 1 <= Len(s)
    /\ \A k \in 1..Len(p) : LowerChar(s[i + k - 1]) = LowerChar(p[k])

\* str(n) for a natural number n
RECURSIVE Str(_)
Str(n) == IF n < 10 THEN <<Digits[n + 1]>> ELSE Str(n \div 10) \o <<Digits[(n % 10) + 1]>>

\* the first position >= i of s that holds no whitespace (Len(s)+1 if none)
RECURSIVE SkipSpace(_, _)
SkipSpace(s, i) == IF i <= Len(s) /\ IsSpace(s[i]) THEN SkipSpace(s, i + 1) ELSE i

\* the first position >= i of s that holds no \w character
RECURSIVE SkipWord(_, _)
SkipWord(s, i) == IF i <= Len(s) /\ IsWord(s[i]) THEN SkipWord(s, i + 1) ELSE i

\* the last position <= j of s that holds a character outside cs (0 if none)
RECURSIVE LastNotIn(_, _, _)
LastNotIn(s, j, cs) == IF j >= 1 /\ s[j] \in cs THEN LastNotIn(s, j - 1, cs) ELSE j

\* the first position >= i of s that holds a character outside cs
RECURSIVE FirstNotIn(_, _, _)
FirstNotIn(s, i, cs) == IF i <= Len(s) /\ s[i] \in cs THEN FirstNotIn(s, i + 1, cs) ELSE i

\* str.strip(chars)
StripChars(s, cs) == SubSeq(s, FirstNotIn(s, 1, cs), LastNotIn(s, Len(s), cs))

\* str.strip()
Strip(s) == StripChars(s, {" ", "\t"})

\* the first position >= i of s that holds character c (Len(s)+1 if none)
RECURSIVE Find(_, _, _)
Find(s, i, c) == IF i <= Len(s) /\ s[i] # c THEN Find(s, i + 1, c) ELSE i

\* the last position of s that holds character c (0 if none): str.rfind + 1
RECURSIVE RFind(_, _, _)
RFind(s, j, c) == IF j >= 1 /\ s[j] # c THEN RFind(s, j - 1, c) ELSE j

\* str.split(sep) for a one-character separator: a sequence of strings
RECURSIVE SplitOn(_, _)
SplitOn(s, c) ==
    LET k == Find(s, 1, c)
    IN  IF k > Len(s) THEN <<s>>
        ELSE <<SubSeq(s, 1, k - 1)>> \o SplitOn(From(s, k + 1), c)

\* str.split(): the whitespace-delimited tokens
RECURSIVE SplitSpace(_)
SplitSpace(s) ==
    LET b == SkipSpace(s, 1)
        e == FirstNotIn(s, b, {c \in Range(s) : ~IsSpace(c)})
    IN  IF b > Len(s) THEN <<>>
        ELSE <<SubSeq(s, b, e - 1)>> \o SplitSpace(From(s, e))

\* \b at 1-based position i: between s[i-1] and s[i]
WordBoundary(s, i) ==
    LET before == i > 1 /\ IsWord(s[i - 1])
        after == i <= Len(s) /\ IsWord(s[i])
    IN  before # after

-----------------------------------------------------------------------------
\* Entity model (graph.py)

\* the keys the program puts in meta dicts, in sorted() order
MetaKeyOrder == <<"file", "line", "path", "text">>

\* a dict with no entries (also: meta=None, which from_meta reads as {})
EmptyDict == [k \in {} |-> <<>>]

\* tuple(sorted(meta.items())): the (key, value) pairs ordered by key
SortedItems(meta) ==
    LET keys == SelectSeq(MetaKeyOrder, LAMBDA k : k \in DOMAIN meta)
    IN  [i \in DOMAIN keys |-> <<keys[i], meta[keys[i]]>>]

\* Node.from_meta
NodeFromMeta(id, name, kind, meta) ==
    [id |-> id, name |-> name, kind |-> kind, meta |-> SortedItems(meta)]

\* Edge.from_meta
EdgeFromMeta(source, target, kind, meta) ==
    [source |-> source, target |-> target, kind |-> kind, meta |-> SortedItems(meta)]

\* d[k] = v on a dict
Put(d, k, v) == [x \in DOMAIN d \cup {k} |-> IF x = k THEN v ELSE d[x]]

\* d.setdefault(k, v)
SetDefault(d, k, v) == IF k \in DOMAIN d THEN d ELSE Put(d, k, v)

\* Graph.__init__: a graph value carries the three dicts and, in err, the
\* exception raised by the call in progress ("none" while none is raised).
\* Every operation below is skipped once an exception is propagating.
NewGraph ==
    [nodes |-> [k \in {} |-> <<>>], out |-> [k \in {} |-> {}],
     inn |-> [k \in {} |-> {}], err |-> "none"]

\* upsert_node that also empties the adjacency entries of the id
UpsertNode_ResetAdjacency(G, node) ==
    IF G.err # "none" THEN G
    ELSE [G EXCEPT !.nodes = Put(G.nodes, node.id, node),
                   !.out = Put(G.out, node.id, {}),
                   !.inn = Put(G.inn, node.id, {})]

\* Graph.upsert_node
UpsertNode(G, node) ==
    IF G.err # "none" THEN G
    ELSE [G EXCEPT !.nodes = Put(G.nodes, node.id, node),
                   !.out = SetDefault(G.out, node.id, {}),
                   !.inn = SetDefault(G.inn, node.id, {})]

\* ensure_node that stores the node it is given even when the id is taken
EnsureNode_Overwrite(G, node_id, name, kind, meta) ==
    UpsertNode(G, NodeFromMeta(node_id, name, kind, meta))

\* Graph.ensure_node
EnsureNode(G, node_id, name, kind, meta) ==
    IF G.err # "none" THEN G
    ELSE IF node_id \in DOMAIN G.nodes THEN G
    ELSE UpsertNode(G, NodeFromMeta(node_id, name, kind, meta))

\* add_edge that looks for the target only after indexing the edge by source
AddEdge_LateTargetCheck(G, edge) ==
    IF G.err # "none" THEN G
    ELSE IF edge.source \notin DOMAIN G.nodes THEN [G EXCEPT !.err = "KeyError"]
    ELSE IF edge.target \notin DOMAIN G.nodes
    THEN [G EXCEPT !.out[edge.source] = @ \cup {edge}, !.err = "KeyError"]
    ELSE [G EXCEPT !.out[edge.source] = @ \cup {edge},
                   !.inn[edge.target] = @ \cup {edge}]

\* add_edge that indexes the edge without looking for its endpoints
AddEdge_Unchecked(G, edge) ==
    IF G.err # "none" THEN G
    ELSE [G EXCEPT !.out = Put(G.out, edge.source,
                                 (IF edge.source \in DOMAIN G.out
                                  THEN G.out[edge.source] ELSE {}) \cup {edge}),
                   !.inn = Put(G.inn, edge.target,
                                 (IF edge.target \in DOMAIN G.inn
                                  THEN G.inn[edge.target] ELSE {}) \cup {edge})]

\* add_edge that indexes the edge by its source only
AddEdge_OutOnly(G, edge) ==
    IF G.err # "none" THEN G
    ELSE IF edge.source \notin DOMAIN G.nodes \/ edge.target \notin DOMAIN G.nodes
    THEN [G EXCEPT !.err = "KeyError"]
    ELSE [G EXCEPT !.out[edge.source] = @ \cup {edge}]

\* Graph.add_edge
AddEdge(G, edge) ==
    IF G.err # "none" THEN G
    ELSE IF edge.source \notin DOMAIN G.nodes \/ edge.target \notin DOMAIN G.nodes
    THEN [G EXCEPT !.err = "KeyError"]
    ELSE IF edge.source \notin DOMAIN G.out
    THEN [G EXCEPT !.err = "KeyError"]
    ELSE IF edge.target \notin DOMAIN G.inn
    THEN [G EXCEPT !.out[edge.source] = @ \cup {edge}, !.err = "KeyError"]
    ELSE [G EXCEPT !.out[edge.source] = @ \cup {edge},
                   !.inn[edge.target] = @ \cup {edge}]

\* Graph.connect
Connect(G, source_id, target_id, kind, meta) ==
    AddEdge(G, EdgeFromMeta(source_id, target_id, kind, meta))

\* Graph.edges, as the set of edges it yields
Edges(G) == UNION {G.out[k] : k \in DOMAIN G.out}

\* Graph.nodes, as the set of nodes it yields
Nodes(G) == {G.nodes[k] : k \in DOMAIN G.nodes}

\* the edges held by the incoming index
InEdges(G) == UNION {G.inn[k] : k \in DOMAIN G.inn}

\* the first loop of Graph.subgraph: upsert every requested node that is stored
RECURSIVE SubgraphNodes(_, _, _)
SubgraphNodes(G, todo, sub) ==
    IF todo = {} THEN sub
    ELSE LET node_id == CHOOSE x \in todo : TRUE
         IN  SubgraphNodes(G, todo \ {node_id},
                 IF node_id \in DOMAIN G.nodes
                 THEN UpsertNode(sub, G.nodes[node_id]) ELSE sub)

\* the second loop of Graph.subgraph: add every edge with both ends requested
RECURSIVE SubgraphEdges(_, _, _)
SubgraphEdges(todo, node_ids, sub) ==
    IF todo = {} THEN sub
    ELSE LET e == CHOOSE x \in todo : TRUE
         IN  SubgraphEdges(todo \ {e}, node_ids,
                 IF e.source \in node_ids /\ e.target \in node_ids
                 THEN AddEdge(sub, e) ELSE sub)

\* subgraph that copies every edge with one end requested
Subgraph_AnyEndpoint(G, node_ids) ==
    LET sub == SubgraphNodes(G, node_ids, NewGraph)
        RECURSIVE Copy(_, _)
        Copy(todo, acc) ==
            IF todo = {} THEN acc
            ELSE LET e == CHOOSE x \in todo : TRUE
                 IN  Copy(todo \ {e},
                          IF e.source \in node_ids \/ e.target \in node_ids
                          THEN AddEdge(acc, e) ELSE acc)
    IN  Copy(Edges(G), sub)

\* Graph.subgraph
Subgraph(G, node_ids) ==
    SubgraphEdges(Edges(G), node_ids, SubgraphNodes(G, node_ids, NewGraph))

\* Graph.node_id_for_file
NodeIdForFile(path) == <<"f","i","l","e",":">> \o path

\* symbol ids numbered by the size of the node store instead of derived from
\* the file path and the symbol name alone
NodeIdForSymbol_Sequential(file_path, symbol_name) ==
    <<"s","y","m","b","o","l",":">> \o file_path \o <<":">> \o symbol_name
        \o <<"#">> \o Str(Cardinality(DOMAIN nodes))

\* Graph.node_id_for_symbol
NodeIdForSymbol(file_path, symbol_name) ==
    <<"s","y","m","b","o","l",":">> \o file_path \o <<":">> \o symbol_name

-----------------------------------------------------------------------------
\* Heuristic extractor (extractors/heuristic.py)
\*
\* A regular expression is modelled by an operator that returns <<>> when the
\* pattern does not match and <<group(1)>> when it does.

\* the keywords of IMPORT_PATTERNS[0], in the order of the alternation
ImportKeywords ==
    <<<<"i","m","p","o","r","t">>,
      <<"f","r","o","m">>,
      <<"u","s","i","n","g">>,
      <<"u","s","e">>,
      <<"i","n","c","l","u","d","e">>,
      <<"r","e","q","u","i","r","e">>>>

\* the keywords of CLASS_DEF_PATTERNS[0]
ClassKeywords ==
    <<<<"c","l","a","s","s">>,
      <<"s","t","r","u","c","t">>,
      <<"i","n","t","e","r","f","a","c","e">>,
      <<"t","r","a","i","t">>>>

\* the one-word keywords of FUNCTION_DEF_PATTERNS[0]
FunctionKeywords ==
    <<<<"d","e","f">>,
      <<"f","u","n","c","t","i","o","n">>,
      <<"f","n">>,
      <<"p","r","o","c">>,
      <<"s","u","b">>,
      <<"l","a","m","b","d","a">>>>

\* the keywords of CONST_PATTERNS[0]
ConstKeywords ==
    <<<<"c","o","n","s","t">>,
      <<"c","o","n","s","t","e","x","p","r">>,
      <<"f","i","n","a","l">>,
      <<"i","m","m","u","t","a","b","l","e">>>>

\* the keywords of VAR_PATTERNS[0]
VarKeywords ==
    <<<<"v","a","r">>,
      <<"l","e","t">>,
      <<"m","u","t">>,
      <<"a","u","t","o">>,
      <<"i","n","t">>,
      <<"f","l","o","a","t">>,
      <<"s","t","r">>,
      <<"b","o","o","l">>,
      <<"c","h","a","r">>,
      <<"d","o","u","b","l","e">>,
      <<"l","o","n","g">>,
      <<"s","h","o","r","t">>>>

\* the markers of EXTENDS_PATTERN
ExtendsKeywords ==
    <<<<"e","x","t","e","n","d","s">>,
      <<"i","m","p","l","e","m","e","n","t","s">>,
      <<":">>,
      <<"w","i","t","h">>>>

\* WRITE_VERBS
WRITE_VERBS ==
    {<<"w","r","i","t","e">>,
     <<"s","a","v","e">>,
     <<"p","u","t">>,
     <<"a","p","p","e","n","d">>,
     <<"u","p","d","a","t","e">>,
     <<"p","o","s","t">>}

\* READ_VERBS
READ_VERBS ==
    {<<"r","e","a","d">>,
     <<"g","e","t">>,
     <<"o","p","e","n">>,
     <<"f","e","t","c","h">>,
     <<"l","o","a","d">>,
     <<"d","o","w","n","l","o","a","d">>}

\* the lowest index holding TRUE in a sequence of booleans, 0 if none: the
\* first alternative of an alternation that lets the rest of the pattern match
FirstTrue(flags) ==
    IF \E i \in DOMAIN flags : flags[i]
    THEN CHOOSE i \in DOMAIN flags : flags[i] /\ \A j \in 1..(i - 1) : ~flags[j]
    ELSE 0

\* IMPORT_PATTERNS[0].match(line): ^\s*(?:import|...)\b(.+)$ with IGNORECASE
ImportMatch(line) ==
    LET b == SkipSpace(line, 1)
        Ok(kw) == /\ StartsAtNoCase(line, b, kw)
                  /\ WordBoundary(line, b + Len(kw))
                  /\ b + Len(kw) <= Len(line)
        k == FirstTrue([i \in DOMAIN ImportKeywords |-> Ok(ImportKeywords[i])])
    IN  IF k = 0 THEN <<>> ELSE <<From(line, b + Len(ImportKeywords[k]))>>

\* the identifier [A-Za-z_][\w]* starting at position q, <<>> if none starts there
IdentAt(line, q) ==
    IF q <= Len(line) /\ IsIdentStart(line[q])
    THEN <<SubSeq(line, q, SkipWord(line, q) - 1)>>
    ELSE <<>>

\* the text after keyword kw at position b matches \s+([A-Za-z_][\w]*)
DeclAfter(line, b, kw) ==
    LET p == b + Len(kw)
    IN  IF StartsAt(line, b, kw) /\ p <= Len(line) /\ IsSpace(line[p])
        THEN IdentAt(line, SkipSpace(line, p))
        ELSE <<>>

\* ^\s*(?:kw1|kw2|...)\s+([A-Za-z_][\w]*), the shape of the class, constant
\* and variable patterns and of the keyword alternatives of the function one
\* (whose closing \b always holds after the greedy [\w]*)
KeywordDecl(line, keywords) ==
    LET b == SkipSpace(line, 1)
        Ok(kw) == DeclAfter(line, b, kw) # <<>>
        k == FirstTrue([i \in DOMAIN keywords |-> Ok(keywords[i])])
    IN  IF k = 0 THEN <<>> ELSE DeclAfter(line, b, keywords[k])

\* CLASS_DEF_PATTERNS[0].match(line)
ClassMatch(line) == KeywordDecl(line, ClassKeywords)

\* CONST_PATTERNS[0].match(line)
ConstMatch(line) == KeywordDecl(line, ConstKeywords)

\* VAR_PATTERNS[0].match(line)
VarMatch(line) == KeywordDecl(line, VarKeywords)

\* the alternative async\s+function of FUNCTION_DEF_PATTERNS[0]
AsyncFunctionMatch(line) ==
    LET b == SkipSpace(line, 1)
        async == <<"a","s","y","n","c">>
        p == b + Len(async)
    IN  IF StartsAt(line, b, async) /\ p <= Len(line) /\ IsSpace(line[p])
        THEN DeclAfter(line, SkipSpace(line, p), <<"f","u","n","c","t","i","o","n">>)
        ELSE <<>>

\* FUNCTION_DEF_PATTERNS[0].match(line)
FunctionKeywordMatch(line) ==
    IF KeywordDecl(line, FunctionKeywords) # <<>>
    THEN KeywordDecl(line, FunctionKeywords)
    ELSE AsyncFunctionMatch(line)

\* FUNCTION_DEF_PATTERNS[1].match(line): ^\s*([A-Za-z_][\w]*)\s*\([^)]*\)\s*\{?\s*$
FunctionShapeMatch(line) ==
    LET b == SkipSpace(line, 1)
        name == IdentAt(line, b)
        p == SkipSpace(line, SkipWord(line, b))
        r == Find(line, p + 1, ")")
        t == SkipSpace(line, r + 1)
        u == IF t <= Len(line) /\ line[t] = "{" THEN SkipSpace(line, t + 1) ELSE t
    IN  IF /\ name # <<>>
           /\ p <= Len(line) /\ line[p] = "("
           /\ r <= Len(line)
           /\ u = Len(line) + 1
        THEN name ELSE <<>>

\* the first of FUNCTION_DEF_PATTERNS that matches
FunctionMatch(line) ==
    IF FunctionKeywordMatch(line) # <<>>
    THEN FunctionKeywordMatch(line)
    ELSE FunctionShapeMatch(line)

\* EXTENDS_PATTERN matched at position i: \b(?:extends|implements|:|with)\s+(ident)
ExtendsAt(line, i) ==
    LET Ok(kw) == DeclAfter(line, i, kw) # <<>>
        k == FirstTrue([n \in DOMAIN ExtendsKeywords |-> Ok(ExtendsKeywords[n])])
    IN  IF WordBoundary(line, i) /\ k # 0
        THEN DeclAfter(line, i, ExtendsKeywords[k]) ELSE <<>>

\* EXTENDS_PATTERN.search(line): the leftmost match
ExtendsSearch(line) ==
    LET hits == {i \in DOMAIN line : ExtendsAt(line, i) # <<>>}
    IN  IF hits = {} THEN <<>>
        ELSE ExtendsAt(line, CHOOSE i \in hits : \A j \in hits : i <= j)

\* CALL_PATTERN matched at position i: \b([A-Za-z_][\w]*)\s*\(
\* returns <<>> or <<name, position after the match>>
CallAt(line, i) ==
    LET p == SkipSpace(line, SkipWord(line, i))
    IN  IF /\ WordBoundary(line, i)
           /\ IdentAt(line, i) # <<>>
           /\ p <= Len(line) /\ line[p] = "("
        THEN <<IdentAt(line, i)[1], p + 1>>
        ELSE <<>>

\* CALL_PATTERN.finditer(line) from position i on: the callee names, in order
RECURSIVE CallsFrom(_, _)
CallsFrom(line, i) ==
    IF i > Len(line) THEN <<>>
    ELSE IF CallAt(line, i) = <<>> THEN CallsFrom(line, i + 1)
    ELSE <<CallAt(line, i)[1]>> \o CallsFrom(line, CallAt(line, i)[2])

\* the characters [^\s'")] stops at
ResourceStop == {" ", "\t", "'", "\"", ")"}

\* the greedy [^\s'")]+ from position r0, cut back to the longest length that
\* ends at a \b: the last position taken, or 0 when no length >= 1 does
ResourceEnd(line, r0) ==
    LET re == FirstNotIn(line, r0, Range(line) \ ResourceStop) - 1
        ends == {k \in r0..re : WordBoundary(line, k + 1)}
    IN  IF ends = {} THEN 0 ELSE CHOOSE k \in ends : \A j \in ends : j <= k

\* RESOURCE_PATTERN matched at position i:
\* \b(https?://[^\s'")]+|/[^\s'")]+)\b
\* returns <<>> or <<literal, position after the match>>
ResourceAt(line, i) ==
    LET https == <<"h","t","t","p","s",":","/","/">>
        http == <<"h","t","t","p",":","/","/">>
        r0 == IF StartsAt(line, i, https) THEN i + Len(https)
              ELSE IF StartsAt(line, i, http) THEN i + Len(http)
              ELSE IF line[i] = "/" THEN i + 1
              ELSE 0
        k == IF r0 = 0 THEN 0 ELSE ResourceEnd(line, r0)
    IN  IF WordBoundary(line, i) /\ k # 0
        THEN <<SubSeq(line, i, k), k + 1>>
        ELSE <<>>

\* RESOURCE_PATTERN.finditer(line) from position i on: the literals, in order
RECURSIVE ResourcesFrom(_, _)
ResourcesFrom(line, i) ==
    IF i > Len(line) THEN <<>>
    ELSE IF ResourceAt(line, i) = <<>> THEN ResourcesFrom(line, i + 1)
    ELSE <<ResourceAt(line, i)[1]>> \o ResourcesFrom(line, ResourceAt(line, i)[2])

\* line.strip().split("(")[0].split()[:1], lower-cased; "" when it is empty
Verb(line) ==
    LET toks == SplitSpace(SplitOn(Strip(line), "(")[1])
    IN  IF toks = <<>> THEN <<>> ELSE Lower(toks[1])

\* os.path.basename
Basename(path) == From(path, RFind(path, Len(path), "/") + 1)

-----------------------------------------------------------------------------
\* HeuristicExtractor.extract, pass by pass. Each pass threads the graph value
\* through the lines; a raised exception (G.err) ends the whole call.

\* lines 63-72: the import loop, from line i on
RECURSIVE ImportPass(_, _, _, _)
ImportPass(file_id, lines, i, G) ==
    IF i > Len(lines) \/ G.err # "none" THEN G
    ELSE LET line == lines[i]
             m == ImportMatch(line)
             target_raw == StripChars(Strip(m[1]), {";", "{", "}", "(", ")"})
             toks == SplitSpace(target_raw)
             imported_id == <<"i","m","p","o","r","t",":">> \o toks[1]
         IN  IF m = <<>> THEN ImportPass(file_id, lines, i + 1, G)
             ELSE IF toks = <<>> THEN [G EXCEPT !.err = "IndexError"]
             ELSE ImportPass(file_id, lines, i + 1,
                      Connect(EnsureNode(G, imported_id, toks[1], "module", EmptyDict),
                              file_id, imported_id, "imports", [text |-> Strip(line)]))

\* lines 81-92: a line recognized as a class definition
ClassLine(file_path, line, idx, G) ==
    LET class_name == ClassMatch(line)[1]
        class_id == NodeIdForSymbol(file_path, class_name)
        G1 == EnsureNode(G, class_id, class_name, "class",
                         [line |-> Str(idx), file |-> file_path])
        ext == ExtendsSearch(line)
        base_id == <<"t","y","p","e",":">> \o ext[1]
    IN  IF ext = <<>> THEN G1
        ELSE Connect(EnsureNode(G1, base_id, ext[1], "type", EmptyDict),
                     class_id, base_id, "extends", [line |-> Str(idx)])

\* lines 99-103: a line recognized as a function definition
FunctionLine(file_path, file_id, line, idx, G) ==
    LET func_name == FunctionMatch(line)[1]
        func_id == NodeIdForSymbol(file_path, func_name)
    IN  Connect(EnsureNode(G, func_id, func_name, "function",
                           [line |-> Str(idx), file |-> file_path]),
                file_id, func_id, "contains", EmptyDict)

\* lines 75-103: the class and function loop, from line idx on
RECURSIVE DefinitionPass(_, _, _, _, _)
DefinitionPass(file_path, file_id, lines, idx, G) ==
    IF idx > Len(lines) \/ G.err # "none" THEN G
    ELSE LET line == lines[idx]
         IN  DefinitionPass(file_path, file_id, lines, idx + 1,
                 IF ClassMatch(line) # <<>> THEN ClassLine(file_path, line, idx, G)
                 ELSE IF FunctionMatch(line) # <<>>
                 THEN FunctionLine(file_path, file_id, line, idx, G)
                 ELSE G)

\* lines 107-114 and 115-122: a constant or variable declaration found by Match
DeclarationLine(file_path, file_id, m, kind, idx, G) ==
    LET decl_id == NodeIdForSymbol(file_path, m[1])
    IN  IF m = <<>> THEN G
        ELSE Connect(EnsureNode(G, decl_id, m[1], kind,
                                [line |-> Str(idx), file |-> file_path]),
                     file_id, decl_id, "contains", EmptyDict)

\* lines 106-122: the variable and constant loop, from line idx on
RECURSIVE DeclarationPass(_, _, _, _, _)
DeclarationPass(file_path, file_id, lines, idx, G) ==
    IF idx > Len(lines) \/ G.err # "none" THEN G
    ELSE LET line == lines[idx]
             G1 == DeclarationLine(file_path, file_id, ConstMatch(line), "constant", idx, G)
         IN  DeclarationPass(file_path, file_id, lines, idx + 1,
                 DeclarationLine(file_path, file_id, VarMatch(line), "variable", idx, G1))

\* lines 126-130: the call sites of one line, from the k-th match on
RECURSIVE CallSites(_, _, _, _, _)
CallSites(file_id, callees, k, idx, G) ==
    IF k > Len(callees) THEN G
    ELSE LET callee_id == <<"s","y","m","b","o","l",":","a","n","y",":">> \o callees[k]
         IN  CallSites(file_id, callees, k + 1, idx,
                 Connect(EnsureNode(G, callee_id, callees[k], "function", EmptyDict),
                         file_id, callee_id, "calls", [line |-> Str(idx)]))

\* lines 132-141: the resources of one line, from the k-th match on
RECURSIVE ResourceSites(_, _, _, _, _, _)
ResourceSites(file_id, line, resources, k, idx, G) ==
    IF k > Len(resources) THEN G
    ELSE LET resource_id == <<"r","e","s","o","u","r","c","e",":">> \o resources[k]
             G1 == EnsureNode(G, resource_id, resources[k], "resource", EmptyDict)
             verb == Verb(line)
         IN  ResourceSites(file_id, line, resources, k + 1, idx,
                 IF verb \in WRITE_VERBS
                 THEN Connect(G1, file_id, resource_id, "writes", [line |-> Str(idx)])
                 ELSE IF verb \in READ_VERBS
                 THEN Connect(G1, file_id, resource_id, "reads", [line |-> Str(idx)])
                 ELSE G1)

\* lines 125-141: the call and resource loop, from line idx on
RECURSIVE CallResourcePass(_, _, _, _)
CallResourcePass(file_id, lines, idx, G) ==
    IF idx > Len(lines) \/ G.err # "none" THEN G
    ELSE LET line == lines[idx]
             G1 == CallSites(file_id, CallsFrom(line, 1), 1, idx, G)
         IN  CallResourcePass(file_id, lines, idx + 1,
                 ResourceSites(file_id, line, ResourcesFrom(line, 1), 1, idx, G1))

\* HeuristicExtractor.supports
HeuristicSupports(file_path, text) == TRUE

\* HeuristicExtractor.extract; text is given as text.splitlines()
HeuristicExtract(file_path, text, G) ==
    LET file_id == NodeIdForFile(file_path)
        G0 == EnsureNode(G, file_id, Basename(file_path), "file", [path |-> file_path])
        G1 == ImportPass(file_id, text, 1, G0)
        G2 == DefinitionPass(file_path, file_id, text, 1, G1)
        G3 == DeclarationPass(file_path, file_id, text, 1, G2)
    IN  CallResourcePass(file_id, text, 1, G3)

-----------------------------------------------------------------------------
\* A client of the Graph API: any sequence of ensure_node, upsert_node,
\* add_edge, connect and subgraph calls on one Graph, starting empty.

\* the most edges the client stores in the graph
MaxEdges == 3

\* the node ids the client uses
ClientIds == {<<"a">>, <<"b">>}

\* the (name, kind, meta) arguments the client passes for a node
ClientNodeArgs ==
    {[name |-> <<"f">>, kind |-> "function", meta |-> EmptyDict],
     [name |-> <<"g">>, kind |-> "class", meta |-> [line |-> <<"1">>, file |-> <<"x">>]]}

\* the (kind, meta) arguments the client passes for an edge
ClientEdgeArgs ==
    {[kind |-> "calls", meta |-> [line |-> <<"1">>]],
     [kind |-> "contains", meta |-> EmptyDict]}

\* the Graph object as a graph value
CurGraph == [nodes |-> nodes, out |-> out_edges, inn |-> in_edges, err |-> "none"]

\* the Graph object takes the state of graph value G
SetGraph(G) ==
    /\ nodes' = G.nodes
    /\ out_edges' = G.out
    /\ in_edges' = G.inn

IdleCorpus == c_done = <<>> /\ c_raised = {}

IdleExtract == x_last = <<>> /\ x_once = NewGraph /\ x_runs = 0 /\ IdleCorpus

IdleScan ==
    /\ s_order = <<>> /\ s_unreadable = {} /\ s_extractors = <<>> /\ s_text = <<>>
    /\ s_pc = "idle" /\ s_fi = 0 /\ s_ei = 0 /\ s_log = <<>> /\ s_raised = "none"

IdleWalk ==
    /\ w_roots = <<>> /\ w_ri = 0 /\ w_root = <<>> /\ w_stack = <<>>
    /\ w_dir = <<>> /\ w_files = {} /\ w_seen = {} /\ w_yielded = <<>>

IdleFilter ==
    /\ f_path = <<>> /\ f_extensions = [given |-> FALSE, entries |-> {}]
    /\ f_ignores = {} /\ f_isfile = {} /\ f_result = <<>>
    /\ IdleWalk

IdleClient == call = [op |-> "none"] /\ result = [err |-> "none", ret |-> {}]

\* Graph(): the three dicts empty
EmptyGraphState == nodes = NewGraph.nodes /\ out_edges = NewGraph.out /\ in_edges = NewGraph.inn

Init == EmptyGraphState /\ IdleClient /\ IdleExtract /\ IdleScan /\ IdleFilter

\* graph.ensure_node(id, name, kind, meta)
CallEnsureNode ==
    \E id \in ClientIds, a \in ClientNodeArgs :
        LET G == EnsureNode(CurGraph, id, a.name, a.kind, a.meta)
        IN  /\ SetGraph(G)
            /\ call' = [op |-> "ensure_node", id |-> id, args |-> a]
            /\ result' = [err |-> G.err, ret |-> {G.nodes[id]}]
            /\ UNCHANGED <<extract_vars, scan_vars, filter_vars>>

\* graph.upsert_node(node)
CallUpsertNode ==
    \E id \in ClientIds, a \in ClientNodeArgs :
        LET node == NodeFromMeta(id, a.name, a.kind, a.meta)
            G == UpsertNode(CurGraph, node)
        IN  /\ SetGraph(G)
            /\ call' = [op |-> "upsert_node", node |-> node]
            /\ result' = [err |-> G.err, ret |-> {node}]
            /\ UNCHANGED <<extract_vars, scan_vars, filter_vars>>

\* the edge is stored already, or there is room for one more
EdgeFits(edge) == edge \in Edges(CurGraph) \/ Cardinality(Edges(CurGraph)) < MaxEdges

\* graph.add_edge(edge)
CallAddEdge ==
    \E s \in ClientIds, t \in ClientIds, a \in ClientEdgeArgs :
        LET edge == EdgeFromMeta(s, t, a.kind, a.meta)
            G == AddEdge(CurGraph, edge)
        IN  /\ EdgeFits(edge)
            /\ SetGraph(G)
            /\ call' = [op |-> "add_edge", edge |-> edge]
            /\ result' = [err |-> G.err, ret |-> IF G.err = "none" THEN {edge} ELSE {}]
            /\ UNCHANGED <<extract_vars, scan_vars, filter_vars>>

\* graph.connect(source_id, target_id, kind, meta)
CallConnect ==
    \E s \in ClientIds, t \in ClientIds, a \in ClientEdgeArgs :
        LET edge == EdgeFromMeta(s, t, a.kind, a.meta)
            G == Connect(CurGraph, s, t, a.kind, a.meta)
        IN  /\ EdgeFits(edge)
            /\ SetGraph(G)
            /\ call' = [op |-> "connect", edge |-> edge]
            /\ result' = [err |-> G.err, ret |-> IF G.err = "none" THEN {edge} ELSE {}]
            /\ UNCHANGED <<extract_vars, scan_vars, filter_vars>>

\* graph.subgraph(node_ids): the returned Graph is kept in result
CallSubgraph ==
    \E node_ids \in SUBSET ClientIds :
        LET sub == Subgraph(CurGraph, node_ids)
        IN  /\ call' = [op |-> "subgraph", node_ids |-> node_ids]
            /\ result' = [err |-> sub.err, ret |-> IF sub.err = "none" THEN {sub} ELSE {}]
            /\ UNCHANGED <<graph_vars, extract_vars, scan_vars, filter_vars>>

Next ==
    \/ CallEnsureNode
    \/ CallUpsertNode
    \/ CallAddEdge
    \/ CallConnect
    \/ CallSubgraph

Spec == Init /\ [][Next]_vars

-----------------------------------------------------------------------------
\* Claims about the Graph API, checked under Spec

\* the last call was add_edge or connect
EdgeCall(c) == c.op \in {"add_edge", "connect"}

\* C1: add_edge (and connect) with an edge whose source id or target id is not
\* in the node store raises KeyError, and the node store, the outgoing-edge
\* index and the incoming-edge index are afterwards exactly as before the call.
C1_MissingEndpointRaisesAndChangesNothing ==
    [][(EdgeCall(call') /\ (call'.edge.source \notin DOMAIN nodes
                            \/ call'.edge.target \notin DOMAIN nodes))
        => (/\ result'.err = "KeyError"
            /\ nodes' = nodes
            /\ out_edges' = out_edges
            /\ in_edges' = in_edges)]_vars

\* C1 witness: connect raised for a stored source and a missing target, on a
\* graph that holds edges
C1_Witness ==
    /\ call.op = "connect"
    /\ result.err = "KeyError"
    /\ call.edge.source \in DOMAIN nodes
    /\ call.edge.target \notin DOMAIN nodes
    /\ out_edges[call.edge.source] # {}

\* the graphs the client holds: the Graph itself and a returned subgraph
ClientGraphs == {CurGraph} \cup (IF call.op = "subgraph" THEN result.ret ELSE {})

\* C2: in every state reachable by ensure_node, upsert_node, add_edge, connect
\* and subgraph calls from an empty Graph, every stored edge (in either index,
\* of the graph or of a subgraph it returned) has its source id and its target
\* id in the node store.
C2_EdgeEndpointsAreStoredNodes ==
    \A G \in ClientGraphs : \A e \in Edges(G) \cup InEdges(G) :
        e.source \in DOMAIN G.nodes /\ e.target \in DOMAIN G.nodes

\* C2 witness: the graph holds edges between two distinct stored nodes, and a
\* subgraph was returned that kept one edge and dropped another
C2_Witness ==
    /\ call.op = "subgraph"
    /\ \E e \in Edges(CurGraph) : e.source # e.target
    /\ \E sub \in result.ret : Edges(sub) # {} /\ Edges(sub) # Edges(CurGraph)

\* C3: ensure_node is first-writer-wins: when a node with the given id is
\* stored already, ensure_node returns that stored node and leaves the node
\* store as it was, whatever name, kind and meta the call passes.
C3_EnsureNodeFirstWriterWins ==
    [][(call'.op = "ensure_node" /\ call'.id \in DOMAIN nodes)
        => (/\ nodes' = nodes
            /\ result'.ret = {nodes[call'.id]}
            /\ result'.err = "none")]_vars

\* C3 witness: ensure_node returned a stored node whose name, kind and meta all
\* differ from the ones the call passed
C3_Witness ==
    /\ call.op = "ensure_node"
    /\ result.ret = {nodes[call.id]}
    /\ nodes[call.id].name # call.args.name
    /\ nodes[call.id].kind # call.args.kind
    /\ nodes[call.id].meta # SortedItems(call.args.meta)

\* d restricted to the keys in ks
Restrict(d, ks) == [k \in DOMAIN d \cap ks |-> d[k]]

\* C12: subgraph(node_ids) returns a new Graph whose node store is exactly the
\* stored nodes with an id in node_ids (ids that are not stored are ignored)
\* and whose edges are exactly the edges with both ends in node_ids; it never
\* raises the structural error, and it leaves the graph it was called on
\* unchanged.
C12_SubgraphIsExactProjection ==
    /\ [](call.op = "subgraph" =>
            /\ result.err = "none"
            /\ \E sub \in result.ret :
                   /\ result.ret = {sub}
                   /\ sub.nodes = Restrict(nodes, call.node_ids)
                   /\ Edges(sub) = {e \in Edges(CurGraph) :
                                       e.source \in call.node_ids /\ e.target \in call.node_ids}
                   /\ InEdges(sub) = Edges(sub))
    /\ [][call'.op = "subgraph" =>
            nodes' = nodes /\ out_edges' = out_edges /\ in_edges' = in_edges]_vars

\* C12 witness: subgraph was asked for a stored id and an id that is not
\* stored, on a graph holding a self-loop on the stored id
C12_Witness ==
    /\ call.op = "subgraph"
    /\ call.node_ids = ClientIds
    /\ \E id \in ClientIds : id \notin DOMAIN nodes
    /\ \E sub \in result.ret : Edges(sub) # {}

\* C13: upsert_node(node) makes node the stored value for node.id, replacing
\* any node stored under that id, and changes nothing else: the other nodes
\* and all outgoing and incoming edges, those of node.id included, are kept.
C13_UpsertReplacesNodeOnly ==
    [][call'.op = "upsert_node" =>
         /\ result'.err = "none" /\ result'.ret = {call'.node}
         /\ DOMAIN nodes' = DOMAIN nodes \cup {call'.node.id}
         /\ nodes'[call'.node.id] = call'.node
         /\ \A k \in DOMAIN nodes \ {call'.node.id} : nodes'[k] = nodes[k]
         /\ Restrict(out_edges', DOMAIN out_edges) = out_edges
         /\ Restrict(in_edges', DOMAIN in_edges) = in_edges
         /\ Edges(CurGraph)' = Edges(CurGraph)
         /\ InEdges(CurGraph)' = InEdges(CurGraph)]_vars

\* C13 witness: upsert_node stored a node under an id that has both outgoing
\* and incoming edges to another node, with a name other than the first one
C13_Witness ==
    /\ call.op = "upsert_node"
    /\ nodes[call.node.id] = call.node
    /\ call.node.name = <<"g">>
    /\ \E e \in out_edges[call.node.id] : e.target # call.node.id
    /\ \E e \in in_edges[call.node.id] : e.source # call.node.id

\* the number of edges Graph.edges yields: one per member of every outgoing set
RECURSIVE EdgesYielded(_, _)
EdgesYielded(G, keys) ==
    IF keys = {} THEN 0
    ELSE LET k == CHOOSE x \in keys : TRUE
         IN  Cardinality(G.out[k]) + EdgesYielded(G, keys \ {k})

\* C18: the two adjacency indexes stay consistent after any sequence of Graph
\* operations: an edge is in the outgoing set of its source iff it is in the
\* incoming set of its target, both indexes are keyed by exactly the stored
\* node ids, edges() yields each distinct edge once, and adding an edge that is
\* stored already changes neither index.
C18_AdjacencyIndexesConsistent ==
    /\ [](\A G \in ClientGraphs :
            /\ DOMAIN G.out = DOMAIN G.nodes /\ DOMAIN G.inn = DOMAIN G.nodes
            /\ \A k \in DOMAIN G.out : \A e \in G.out[k] :
                   e.source = k /\ e.target \in DOMAIN G.inn /\ e \in G.inn[e.target]
            /\ \A k \in DOMAIN G.inn : \A e \in G.inn[k] :
                   e.target = k /\ e.source \in DOMAIN G.out /\ e \in G.out[e.source]
            /\ EdgesYielded(G, DOMAIN G.out) = Cardinality(Edges(G)))
    /\ [][(EdgeCall(call') /\ call'.edge \in Edges(CurGraph)) =>
            /\ result'.err = "none"
            /\ out_edges' = out_edges /\ in_edges' = in_edges]_vars

\* C18 witness: the graph holds the most edges the client adds, among them two
\* edges between the same two nodes and a self-loop, after a call that added an
\* edge
C18_Witness ==
    /\ EdgeCall(call) /\ result.err = "none"
    /\ Cardinality(Edges(CurGraph)) = MaxEdges
    /\ \E e1 \in Edges(CurGraph), e2 \in Edges(CurGraph) :
           e1 # e2 /\ e1.source = e2.source /\ e1.target = e2.target /\ e1.source # e1.target
    /\ \E e \in Edges(CurGraph) : e.source = e.target

-----------------------------------------------------------------------------
\* The source files the extractor and the scanner are run on

\* a file named any that defines foo: its file-scoped id symbol:any:foo is also
\* the coarse id of every call to foo
FileAny ==
    [path |-> <<"a","n","y">>,
     text |-> <<<<"d","e","f"," ","f","o","o">>>>]

\* an import, and a line that is both a function definition and a call
FileB ==
    [path |-> <<"b",".","p","y">>,
     text |-> <<<<"i","m","p","o","r","t"," ","o","s">>,
               <<"f","o","o","(",")">>>>]

\* a class with a base type, and a read of a URL
FileC ==
    [path |-> <<"c",".","p","y">>,
     text |-> <<<<"c","l","a","s","s"," ","D","o","g"," ","e","x","t","e","n","d","s"," ","A","n","i","m","a","l">>,
               <<"d","o","w","n","l","o","a","d","(","'","h","t","t","p","s",":","/","/","x","/","y","'",")">>>>]

\* an import line with nothing but punctuation after the keyword
FileD ==
    [path |-> <<"d",".","p","y">>,
     text |-> <<<<"i","m","p","o","r","t"," ","o","s">>,
               <<"i","m","p","o","r","t"," ",";">>,
               <<"d","e","f"," ","l","a","t","e","(",")">>>>]

Files == {FileAny, FileB, FileC, FileD}

-----------------------------------------------------------------------------
\* A harness that runs HeuristicExtractor.extract on one Graph: any file of
\* Files, in any order, each run possibly repeated at once with the same
\* (file_path, text). Nodes stored beforehand by other code are covered too.

\* how many times in a row one (file_path, text) is extracted
MaxRuns == 2

\* ids some other extractor may have stored before the heuristic one runs
SeedIds ==
    {<<"s","y","m","b","o","l",":","a","n","y",":","f","o","o">>,
     <<"f","i","l","e",":","b",".","p","y">>,
     <<"t","y","p","e",":","A","n","i","m","a","l">>}

ExtractInit == EmptyGraphState /\ IdleClient /\ IdleExtract /\ IdleScan /\ IdleFilter

\* another extractor stores a node under an id the heuristic extractor uses
SeedNode ==
    \E id \in SeedIds :
        /\ id \notin DOMAIN nodes
        /\ SetGraph(UpsertNode(CurGraph, NodeFromMeta(id, <<"z">>, "unknown", EmptyDict)))
        /\ x_runs' = 0
        /\ UNCHANGED <<x_last, x_once, corpus_vars, client_vars, scan_vars, filter_vars>>

\* extractor.extract(file_path, text, graph) on a (file_path, text) of Files
ExtractFile ==
    \E f \in Files :
        LET G == HeuristicExtract(f.path, f.text, CurGraph)
        IN  /\ SetGraph(G)
            /\ x_last' = <<f>>
            /\ x_once' = G
            /\ x_runs' = 1
            /\ UNCHANGED <<corpus_vars, client_vars, scan_vars, filter_vars>>

\* the same call again, with the same (file_path, text)
ExtractAgain ==
    /\ x_runs >= 1
    /\ x_runs < MaxRuns
    /\ SetGraph(HeuristicExtract(x_last[1].path, x_last[1].text, CurGraph))
    /\ x_runs' = x_runs + 1
    /\ UNCHANGED <<x_last, x_once, corpus_vars, client_vars, scan_vars, filter_vars>>

ExtractNext ==
    \/ SeedNode
    \/ ExtractFile
    \/ ExtractAgain

ExtractSpec == ExtractInit /\ [][ExtractNext]_vars

\* C4: HeuristicExtractor.extract is idempotent: running it again with the same
\* (file_path, text) leaves the graph with exactly the nodes and edges (in both
\* indexes) it had after the first run, whatever the graph held before.
C4_ExtractIsIdempotent ==
    x_runs >= 2 =>
        /\ nodes = x_once.nodes
        /\ out_edges = x_once.out
        /\ in_edges = x_once.inn

\* C4 witness: a second run in a row, of a file whose first run added nodes and
\* edges to a graph that already held other files' nodes
C4_Witness ==
    /\ x_runs >= 2
    /\ x_last[1] = FileB
    /\ NodeIdForFile(FileAny.path) \in DOMAIN nodes
    /\ Cardinality(Edges(CurGraph)) >= 4

-----------------------------------------------------------------------------
\* Scanner.scan (scanner.py). walk_paths has produced s_order; the files whose
\* open() or read() raises are s_unreadable; the registered extractors are the
\* heuristic one and implementations of the Extractor interface that decline,
\* raise, or break the graph's structural rule.

\* the most files one scan visits
MaxFiles == 2

\* the exceptions of the model; all are subclasses of Exception
ExceptionClasses == {"OSError", "KeyError", "IndexError", "RuntimeError"}

\* extractor.supports(file_path, text): "True", "False" or the exception raised
ExtractorSupports(x, file_path, text) ==
    CASE x = "heuristic" -> IF HeuristicSupports(file_path, text) THEN "True" ELSE "False"
      [] x = "declines" -> "False"
      [] x = "supports_raises" -> "RuntimeError"
      [] x = "extract_raises" -> "True"
      [] x = "bad_edge" -> "True"

\* extractor.extract(file_path, text, graph): the graph value it leaves, with
\* the exception it raised in err
ExtractorExtract(x, file_path, text, G) ==
    CASE x = "heuristic" -> HeuristicExtract(file_path, text, G)
      [] x = "extract_raises" ->
            [EnsureNode(G, NodeIdForFile(file_path), Basename(file_path), "file",
                        [path |-> file_path]) EXCEPT !.err = "RuntimeError"]
      [] x = "bad_edge" ->
            Connect(G, NodeIdForFile(file_path), <<"m","i","s","s","i","n","g">>,
                    "references", EmptyDict)
      [] OTHER -> G

\* the extractor lists a Scanner is built with
ExtractorLists ==
    {<<"heuristic">>,
     <<"supports_raises", "heuristic">>,
     <<"extract_raises", "declines", "heuristic">>,
     <<"bad_edge", "heuristic">>,
     <<"supports_raises", "bad_edge", "extract_raises">>}

\* a handler that lets the error of open/read leave scan
ReadExcept_Raise(exc) == "raise"

\* a handler that goes on to the extractors with an empty text
ReadExcept_EmptyText(exc) == "empty"

\* lines 50-52: except Exception around open/read: continue with the next file
ReadExcept(exc) == IF exc \in ExceptionClasses THEN "continue" ELSE "raise"

\* a handler that leaves the extractor loop of the file
ExtractorExcept_Break(exc) == "break"

\* a handler that lets the structural error leave scan
ExtractorExcept_ReraiseKeyError(exc) ==
    IF exc = "KeyError" THEN "raise" ELSE "continue"

\* lines 58-60: except Exception around supports/extract: continue with the
\* next extractor
ExtractorExcept(exc) == IF exc \in ExceptionClasses THEN "continue" ELSE "raise"

\* lines 55-57: the body of the try block for one extractor on one file, given
\* what supports returned and what extract left: the graph, the exception that
\* left the block, and the calls made
ConsultResult(ei, file_path, G, sup, E) ==
    IF sup = "True"
    THEN [G |-> [E EXCEPT !.err = "none"], exc |-> E.err,
          calls |-> <<<<file_path, ei, "supports", sup>>,
                      <<file_path, ei, "extract", E.err>>>>]
    ELSE [G |-> G, exc |-> IF sup = "False" THEN "none" ELSE sup,
          calls |-> <<<<file_path, ei, "supports", sup>>>>]

\* lines 55-57: if extractor.supports(...): extractor.extract(...)
Consult(x, ei, file_path, text, G) ==
    ConsultResult(ei, file_path, G, ExtractorSupports(x, file_path, text),
                  IF ExtractorSupports(x, file_path, text) = "True"
                  THEN ExtractorExtract(x, file_path, text, G) ELSE G)

\* the sequences without repetition of at most n of the files of S
RECURSIVE Orders(_, _)
Orders(S, n) ==
    IF n = 0 THEN {<<>>}
    ELSE {<<>>} \cup {<<f>> \o rest : f \in S, rest \in Orders(S, n - 1)}

InjectiveOrders(S, n) ==
    {o \in Orders(S, n) : \A i \in DOMAIN o : \A j \in DOMAIN o : o[i] = o[j] => i = j}

\* line 45: graph = Graph(), before the first file
ScanInit ==
    /\ EmptyGraphState /\ IdleClient /\ IdleExtract /\ IdleFilter
    /\ s_order \in InjectiveOrders(Files, MaxFiles)
    /\ s_unreadable \in SUBSET {s_order[i].path : i \in DOMAIN s_order}
    /\ s_extractors \in ExtractorLists
    /\ s_text = <<>>
    /\ s_pc = "open" /\ s_fi = 1 /\ s_ei = 0
    /\ s_log = <<>> /\ s_raised = "none"

\* lines 46-52: the next file of the walk is opened and read; outcome is what
\* the try statement leaves: the text was read, or the handler's decision
OpenFileStep(f, outcome) ==
    /\ s_text' = (IF outcome = "read" THEN f.text ELSE <<>>)
    /\ s_pc' = (CASE outcome = "continue" -> "open"
                  [] outcome = "raise" -> "raised"
                  [] OTHER -> "extract")
    /\ s_fi' = (IF outcome = "continue" THEN s_fi + 1 ELSE s_fi)
    /\ s_ei' = (IF outcome \in {"continue", "raise"} THEN 0 ELSE 1)
    /\ s_raised' = (IF outcome = "raise" THEN "OSError" ELSE s_raised)

OpenFile ==
    /\ s_pc = "open"
    /\ s_fi <= Len(s_order)
    /\ \E outcome \in {IF s_order[s_fi].path \in s_unreadable
                       THEN ReadExcept("OSError") ELSE "read"} :
           OpenFileStep(s_order[s_fi], outcome)
    /\ UNCHANGED <<graph_vars, s_order, s_unreadable, s_extractors, s_log,
                   client_vars, extract_vars, filter_vars>>

\* lines 54-60: where the extractor loop goes after one extractor was consulted
\* with result r and the try statement left outcome
RunExtractorStep(r, outcome, next_ei) ==
    /\ SetGraph(r.G)
    /\ s_log' = s_log \o r.calls
    /\ s_pc' = (IF outcome = "raise" THEN "raised"
                ELSE IF next_ei > Len(s_extractors) THEN "open" ELSE "extract")
    /\ s_raised' = (IF outcome = "raise" THEN r.exc ELSE s_raised)
    /\ s_fi' = (IF outcome # "raise" /\ next_ei > Len(s_extractors)
                THEN s_fi + 1 ELSE s_fi)
    /\ s_ei' = (IF outcome = "raise" \/ next_ei > Len(s_extractors)
                THEN 0 ELSE next_ei)

\* lines 54-60: the next extractor is consulted on the file that was read
RunExtractor ==
    /\ s_pc = "extract"
    /\ \E r \in {Consult(s_extractors[s_ei], s_ei, s_order[s_fi].path, s_text, CurGraph)} :
       \E outcome \in {IF r.exc = "none" THEN "continue" ELSE ExtractorExcept(r.exc)} :
           RunExtractorStep(r, outcome,
               IF outcome = "continue" THEN s_ei + 1 ELSE Len(s_extractors) + 1)
    /\ UNCHANGED <<s_order, s_unreadable, s_extractors, s_text,
                   client_vars, extract_vars, filter_vars>>

\* line 61: return graph, after the last file
ReturnGraph ==
    /\ s_pc = "open"
    /\ s_fi > Len(s_order)
    /\ s_pc' = "returned"
    /\ UNCHANGED <<graph_vars, s_order, s_unreadable, s_extractors, s_text, s_fi, s_ei,
                   s_log, s_raised, client_vars, extract_vars, filter_vars>>

ScanNext ==
    \/ OpenFile
    \/ RunExtractor
    \/ ReturnGraph

ScanSpec == ScanInit /\ [][ScanNext]_vars

-----------------------------------------------------------------------------
\* Scanner.scan as a function of the walk order, for comparing runs

\* lines 54-60: the extractor loop on one readable file, from extractor ei on
RECURSIVE ScanExtractors(_, _, _)
ScanExtractors(f, ei, G) ==
    IF ei > Len(s_extractors) THEN G
    ELSE ScanExtractors(f, ei + 1, Consult(s_extractors[ei], ei, f.path, f.text, G).G)

\* lines 46-60: the file loop over a walk order, from file fi on
RECURSIVE ScanFiles(_, _, _)
ScanFiles(order, fi, G) ==
    IF fi > Len(order) THEN G
    ELSE ScanFiles(order, fi + 1,
             IF order[fi].path \in s_unreadable THEN G
             ELSE ScanExtractors(order[fi], 1, G))

\* the files of the scan in one fixed order, whatever order they were walked in
FixedOrder == SelectSeq(<<FileAny, FileB, FileC, FileD>>, LAMBDA f : f \in Range(s_order))

\* the files of the walk that can be read, in walk order
ReadableOrder == SelectSeq(s_order, LAMBDA f : f.path \notin s_unreadable)

\* the (file, extractor, method) of every call logged so far
LogCalls == [i \in DOMAIN s_log |-> <<s_log[i][1], s_log[i][2], s_log[i][3]>>]

\* the calls due on one readable file, from extractor ei on: supports of every
\* extractor in registration order, each followed by extract when it returned true
RECURSIVE CallsOnFile(_, _)
CallsOnFile(f, ei) ==
    IF ei > Len(s_extractors) THEN <<>>
    ELSE <<<<f.path, ei, "supports">>>>
         \o (IF ExtractorSupports(s_extractors[ei], f.path, f.text) = "True"
             THEN <<<<f.path, ei, "extract">>>> ELSE <<>>)
         \o CallsOnFile(f, ei + 1)

\* the calls due on the readable files of a walk order, from file fi on
RECURSIVE CallsOnFiles(_, _)
CallsOnFiles(order, fi) ==
    IF fi > Len(order) THEN <<>>
    ELSE CallsOnFile(order[fi], 1) \o CallsOnFiles(order, fi + 1)

IsPrefix(a, b) == Len(a) <= Len(b) /\ SubSeq(b, 1, Len(a)) = a

\* a call of the log ended in exception exc
Raised(exc) == \E i \in DOMAIN s_log : s_log[i][4] = exc

\* path is where node n says it comes from
NodeOfFile(n, path) ==
    \/ n.id = NodeIdForFile(path)
    \/ \E i \in DOMAIN n.meta : n.meta[i] \in {<<"path", path>>, <<"file", path>>}

-----------------------------------------------------------------------------
\* Claims about Scanner.scan

\* C5: for a fixed set of files and a fixed extractor list, the graph scan
\* returns has the same node records and the same edge records whatever the
\* order the files are visited in, also when a file path makes a file-scoped id
\* coincide with a coarse call-target id used by another file.
C5_ScanResultIndependentOfOrder ==
    s_pc = "returned" =>
        \A R \in {ScanFiles(FixedOrder, 1, NewGraph)} :
            Nodes(CurGraph) = Nodes(R) /\ Edges(CurGraph) = Edges(R)

\* the scan is at a statement that can run: the head of the file loop, or the
\* extractor loop on a file of the walk with an extractor of the list
ScanCanStep ==
    \/ s_pc = "open"
    \/ s_pc = "extract" /\ s_fi \in DOMAIN s_order /\ s_ei \in DOMAIN s_extractors

\* a bound on the statements scan has yet to run: one open and one consultation
\* per extractor for every file left, and the return
ScanMeasure ==
    CASE s_pc = "open" -> (Len(s_order) - s_fi + 1) * (Len(s_extractors) + 1) + 1
      [] s_pc = "extract" ->
            (Len(s_order) - s_fi) * (Len(s_extractors) + 1) + 1
            + (Len(s_extractors) - s_ei + 1)
      [] OTHER -> 0

\* C6: a scan over a finite list of files always terminates and returns a
\* graph, also when every file fails to open and when every extractor raises on
\* every file: no exception leaves scan, scan is never stuck before its return,
\* and every step lowers a natural-number bound on the steps left.
C6_ScanAlwaysReturns ==
    /\ [](s_raised = "none" /\ (s_pc = "returned" \/ ScanCanStep) /\ ScanMeasure >= 0)
    /\ [][ScanMeasure' < ScanMeasure]_vars

\* C6 witness: scan returned after the first file failed to open and every
\* extractor raised on the second one, leaving a partly filled graph
C6_Witness ==
    /\ s_pc = "returned"
    /\ Len(s_order) = 2
    /\ s_unreadable = {s_order[1].path}
    /\ \A ei \in DOMAIN s_extractors :
           \E i \in DOMAIN s_log : s_log[i][2] = ei /\ s_log[i][4] \in ExceptionClasses
    /\ DOMAIN nodes # {}

\* C7: for every readable file the extractors are consulted in registration
\* order on the one shared graph, and an exception raised by supports or
\* extract skips only that (extractor, file) pair: the calls made so far are
\* always the first of the calls due, and at the return they are all of them;
\* what an extractor stored before it raised stays in the graph.
C7_ExtractorsConsultedInOrderDespiteErrors ==
    /\ IsPrefix(LogCalls, CallsOnFiles(ReadableOrder, 1))
    /\ s_pc = "returned" => LogCalls = CallsOnFiles(ReadableOrder, 1)
    /\ \A i \in DOMAIN s_log :
           (s_log[i][3] = "extract"
            /\ s_extractors[s_log[i][2]] \in {"heuristic", "extract_raises"})
           => NodeIdForFile(s_log[i][1]) \in DOMAIN nodes

\* C7 witness: scan returned after two files on each of which the first
\* extractor raised in extract and the two later ones were still consulted
C7_Witness ==
    /\ s_pc = "returned"
    /\ s_extractors = <<"extract_raises", "declines", "heuristic">>
    /\ Len(s_order) = 2
    /\ s_unreadable = {}
    /\ Len(s_log) = 10
    /\ Raised("RuntimeError")

\* C8 as claimed: the structural error is propagated: once extract has raised
\* KeyError from add_edge during a scan, the scan does not return a graph but
\* ends with that KeyError.
C8_StructuralErrorPropagates ==
    (Raised("KeyError") /\ s_pc \in {"returned", "raised"}) => s_raised = "KeyError"

\* C8 as amended: scan propagates no failure at all: the KeyError that add_edge
\* raises inside extract is caught like every other exception of an extractor,
\* and like the errors of open and read, and the scan goes on to return.
C8_NoFailurePropagates ==
    /\ s_raised = "none"
    /\ s_pc # "raised"
    /\ (s_pc = "returned" /\ Raised("KeyError")) => LogCalls = CallsOnFiles(ReadableOrder, 1)

\* C8 witness: scan returned a graph although extract raised KeyError from
\* add_edge and a file failed to open
C8_Witness ==
    /\ s_pc = "returned"
    /\ Raised("KeyError")
    /\ s_unreadable # {}
    /\ DOMAIN nodes # {}

\* C9: a file that raises when opened or read contributes nothing: no supports
\* or extract is called for it, no node file:<path> and no node or edge that
\* comes from it is in the graph, the files after it are still processed, and
\* the returned graph is the one the readable files alone give.
C9_UnreadableFileContributesNothing ==
    /\ \A k \in DOMAIN s_order :
           s_order[k].path \in s_unreadable =>
               /\ \A i \in DOMAIN s_log : s_log[i][1] # s_order[k].path
               /\ \A n \in Nodes(CurGraph) : ~NodeOfFile(n, s_order[k].path)
               /\ \A e \in Edges(CurGraph) \cup InEdges(CurGraph) :
                      NodeIdForFile(s_order[k].path) \notin {e.source, e.target}
               /\ s_pc = "returned" =>
                      \A j \in DOMAIN s_order :
                          (j > k /\ s_order[j].path \notin s_unreadable)
                          => \E i \in DOMAIN s_log : s_log[i][1] = s_order[j].path
    /\ (s_pc = "returned" /\ s_unreadable # {}) =>
           \A R \in {ScanFiles(ReadableOrder, 1, NewGraph)} :
               nodes = R.nodes /\ out_edges = R.out /\ in_edges = R.inn

\* C9 witness: scan returned after a first file that could not be opened and a
\* second one that the heuristic extractor put in the graph
C9_Witness ==
    /\ s_pc = "returned"
    /\ Len(s_order) = 2
    /\ s_unreadable = {s_order[1].path}
    /\ NodeIdForFile(s_order[2].path) \in DOMAIN nodes
    /\ Edges(CurGraph) # {}

-----------------------------------------------------------------------------
\* Scanner.should_include_file. A Scanner is constructed with an extension
\* allowlist and an ignore set, over a file system, and is then asked about
\* paths.

DEFAULT_IGNORES ==
    { <<".","g","i","t">>, <<"n","o","d","e","_","m","o","d","u","l","e","s">>,
      <<".","v","e","n","v">>, <<"_","_","p","y","c","a","c","h","e","_","_">>,
      <<".","i","d","e","a">>, <<".","v","s","c","o","d","e">>,
      <<"d","i","s","t">>, <<"b","u","i","l","d">> }

\* os.path.splitext(p): the extension starts at the last dot of the last path
\* component, unless only dots come before it in that component
Splitext(p) ==
    LET sepIndex == RFind(p, Len(p), "/")
        dotIndex == RFind(p, Len(p), ".")
    IN  IF /\ dotIndex > sepIndex
           /\ \E k \in (sepIndex + 1)..(dotIndex - 1) : p[k] # "."
        THEN <<SubSeq(p, 1, dotIndex - 1), From(p, dotIndex)>>
        ELSE <<p, <<>>>>

\* the allowlist test: the file's extension lower-cased, the entries as stored
ExtensionAllowed(ext, extensions) == Lower(ext) \in extensions

\* Scanner.__init__: the extensions argument as a set, None kept apart
ScannerExtensions(extensions) ==
    IF extensions = <<>> THEN [given |-> FALSE, entries |-> {}]
    ELSE [given |-> TRUE, entries |-> Range(extensions)]

\* Scanner.__init__: the ignores argument, or the defaults when it is falsy
ScannerIgnores(ignores) == IF ignores = <<>> THEN DEFAULT_IGNORES ELSE Range(ignores)

\* Scanner.should_include_file(path)
ShouldIncludeFile(path, extensions, ignores, isfile) ==
    LET base == Basename(path)
        parts == SplitOn(path, "/")
    IN  IF StartsAt(base, 1, <<".">>) THEN FALSE
        ELSE IF \E k \in DOMAIN parts : parts[k] \in ignores THEN FALSE
        ELSE IF extensions.given
             THEN ExtensionAllowed(Splitext(base)[2], extensions.entries)
             ELSE path \in isfile

\* the extensions arguments tried: None, an empty list, and lists of entries
\* in lower, upper and mixed case
ExtensionArgs ==
    { <<>>,
      << <<".","p","y">> >>,
      << <<".","P","Y">> >>,
      << <<".","P","y">>, <<".","t","x","t">> >>,
      << <<".","t","x","t">>, <<".","g","z">> >> }

\* the ignores arguments tried: none given, and one custom list
IgnoreArgs == { <<>>, << <<"s","r","c">>, <<"d","i","s","t">> >> }

\* the paths should_include_file is asked about
FilterPaths ==
    { <<"a",".","p","y">>,
      <<"a",".","P","Y">>,
      <<"a",".","P","y">>,
      <<"s","r","c","/","a",".","p","y">>,
      <<"d","i","s","t","/","a",".","P","Y">>,
      <<".","g","i","t","/","a",".","p","y">>,
      <<"l","i","b","/",".","e","n","v">>,
      <<"l","i","b","/",".","a",".","p","y">>,
      <<"l","i","b","/","a",".","t","a","r",".","g","z">>,
      <<"l","i","b","/","a",".","t","x","t">>,
      <<"l","i","b",".","d","/","R","E","A","D","M","E">>,
      <<"a",".">> }

\* the file systems tried: every path a regular file, or only those at the top
FileSystems == { FilterPaths, {p \in FilterPaths : RFind(p, Len(p), "/") = 0} }

\* Scanner(extensions=..., ignores=...) over a file system; nothing asked yet
FilterInit ==
    /\ EmptyGraphState /\ IdleClient /\ IdleExtract /\ IdleScan
    /\ f_path = <<>> /\ f_result = <<>>
    /\ \E extensions \in ExtensionArgs : f_extensions = ScannerExtensions(extensions)
    /\ \E ignores \in IgnoreArgs : f_ignores = ScannerIgnores(ignores)
    /\ f_isfile \in FileSystems
    /\ IdleWalk

\* scanner.should_include_file(path)
CallShouldIncludeFile ==
    \E path \in FilterPaths :
        /\ f_path' = path
        /\ f_result' = <<ShouldIncludeFile(path, f_extensions, f_ignores, f_isfile)>>
        /\ UNCHANGED <<f_extensions, f_ignores, f_isfile, walk_vars>>
        /\ UNCHANGED <<graph_vars, client_vars, extract_vars, scan_vars>>

FilterNext == CallShouldIncludeFile

FilterSpec == FilterInit /\ [][FilterNext]_vars

\* the file asked about is no dotfile and has no ignored path segment
PassesNameFilters ==
    /\ f_result # <<>>
    /\ ~StartsAt(Basename(f_path), 1, <<".">>)
    /\ \A k \in DOMAIN SplitOn(f_path, "/") : SplitOn(f_path, "/")[k] \notin f_ignores

\* C10: the extension allowlist is matched case-insensitively: whenever the
\* file asked about is no dotfile, has no ignored segment, and its extension
\* equals some allowlist entry up to letter case, in the entry or in the file
\* name, should_include_file returns true.
C10_AllowlistMatchedCaseInsensitively ==
    ( /\ PassesNameFilters
      /\ f_extensions.given
      /\ \E e \in f_extensions.entries : Lower(e) = Lower(Splitext(Basename(f_path))[2]) )
    => f_result = <<TRUE>>

-----------------------------------------------------------------------------
\* Scanner.walk_paths. The file system is a set of regular files; its
\* directories are the proper prefixes of their paths. os.walk lists a
\* directory's entries in no promised order.

\* path lies below directory dir
IsUnder(path, dir) ==
    /\ Len(path) > Len(dir) + 1
    /\ SubSeq(path, 1, Len(dir)) = dir
    /\ path[Len(dir) + 1] = "/"

\* the directories of a file system
DirsOf(files) ==
    UNION {{SubSeq(f, 1, k - 1) : k \in {j \in DOMAIN f : f[j] = "/"}} : f \in files}

\* the names of the entries of all that lie directly in directory dir
Entries(all, dir) ==
    {From(e, Len(dir) + 2) : e \in {x \in all : IsUnder(x, dir) /\ RFind(x, Len(x), "/") = Len(dir) + 1}}

\* os.path.join(dirpath, name)
Join(dirpath, name) ==
    IF dirpath # <<>> /\ dirpath[Len(dirpath)] = "/" THEN dirpath \o name
    ELSE dirpath \o <<"/">> \o name

\* a pruning that keeps every subdirectory
PruneDirnames_KeepAll(dirnames, ignores) == dirnames

\* line 38: dirnames[:] = [d for d in dirnames if d not in self.ignores and
\* not d.startswith('.')]
PruneDirnames(dirnames, ignores) ==
    {d \in dirnames : d \notin ignores /\ ~StartsAt(d, 1, <<".">>)}

MaxRoots == 2

\* the regular files on disk
WalkTree ==
    { <<"p","/",".","g","i","t","/","c","o","n","f","i","g">>,
      <<"p","/","s","r","c","/","m","a","i","n",".","e","x","t">>,
      <<"p","/","s","r","c","/",".","c","a","c","h","e","/","x",".","e","x","t">>,
      <<"p","/","s","r","c","/","l","i","b","/","d","i","s","t","/","d",".","e","x","t">>,
      <<"p","/","b","u","i","l","d","/","o","u","t",".","e","x","t">>,
      <<"p","/",".","e","n","v">>,
      <<"p","/","R","E","A","D","M","E">>,
      <<".","h","/","a",".","e","x","t">> }

\* the root paths tried: directories, a dot-prefixed directory, regular files,
\* and a path that does not exist
WalkRoots ==
    { <<"p">>,
      <<"p","/","s","r","c">>,
      <<".","h">>,
      <<"p","/","R","E","A","D","M","E">>,
      <<"p","/",".","g","i","t","/","c","o","n","f","i","g">>,
      <<"n","o","p","e">> }

\* the extensions and ignores arguments the walking Scanner is built with
WalkExtensionArgs == { <<>>, << <<".","e","x","t">> >> }

WalkIgnoreArgs == { <<>>, << <<".","g","i","t">> >> }

\* Scanner(extensions=..., ignores=...), and walk_paths(paths) not yet iterated
WalkInit ==
    /\ EmptyGraphState /\ IdleClient /\ IdleExtract /\ IdleScan
    /\ f_path = <<>> /\ f_result = <<>>
    /\ \E extensions \in WalkExtensionArgs : f_extensions = ScannerExtensions(extensions)
    /\ \E ignores \in WalkIgnoreArgs : f_ignores = ScannerIgnores(ignores)
    /\ f_isfile = WalkTree
    /\ w_roots \in InjectiveOrders(WalkRoots, MaxRoots) \ {<<>>}
    /\ w_ri = 1 /\ w_root = <<>> /\ w_stack = <<>> /\ w_dir = <<>>
    /\ w_files = {} /\ w_seen = {} /\ w_yielded = <<>>

\* lines 34-35 and 41-42: if self.should_include_file(path): yield path
YieldIfIncluded(root, path) ==
    /\ w_seen' = w_seen \cup {<<root, path, "file">>}
    /\ w_yielded' = IF ShouldIncludeFile(path, f_extensions, f_ignores, f_isfile)
                    THEN Append(w_yielded, path) ELSE w_yielded

\* lines 32-37: the next root path: a regular file is tested and the loop
\* continues; anything else is handed to os.walk, which lists nothing when the
\* path is no directory
NextRoot ==
    /\ w_dir = <<>> /\ w_stack = <<>>
    /\ w_ri <= Len(w_roots)
    /\ w_ri' = w_ri + 1
    /\ \E root \in {w_roots[w_ri]} :
           IF root \in f_isfile
           THEN YieldIfIncluded(root, root) /\ UNCHANGED <<w_root, w_stack>>
           ELSE /\ w_root' = root
                /\ w_stack' = IF root \in DirsOf(f_isfile) THEN <<{root}>> ELSE <<>>
                /\ UNCHANGED <<w_seen, w_yielded>>
    /\ UNCHANGED <<w_roots, w_dir, w_files>>
    /\ UNCHANGED <<f_path, f_extensions, f_ignores, f_isfile, f_result>>
    /\ UNCHANGED <<graph_vars, client_vars, extract_vars, scan_vars>>

\* line 37: os.walk produces the next (dirpath, dirnames, filenames)
ListDir ==
    /\ w_dir = <<>> /\ w_stack # <<>> /\ Head(w_stack) # {}
    /\ \E dirpath \in Head(w_stack) :
           /\ w_stack' = <<Head(w_stack) \ {dirpath}>> \o Tail(w_stack)
           /\ w_dir' = <<dirpath>>
           /\ w_files' = Entries(f_isfile, dirpath)
           /\ w_seen' = w_seen \cup {<<w_root, dirpath, "dir">>}
    /\ UNCHANGED <<w_roots, w_ri, w_root, w_yielded>>
    /\ UNCHANGED <<f_path, f_extensions, f_ignores, f_isfile, f_result>>
    /\ UNCHANGED <<graph_vars, client_vars, extract_vars, scan_vars>>

\* lines 39-42: one filename of the directory
VisitFile ==
    /\ w_dir # <<>> /\ w_files # {}
    /\ \E filename \in w_files :
           /\ w_files' = w_files \ {filename}
           /\ YieldIfIncluded(w_root, Join(w_dir[1], filename))
    /\ UNCHANGED <<w_roots, w_ri, w_root, w_stack, w_dir>>
    /\ UNCHANGED <<f_path, f_extensions, f_ignores, f_isfile, f_result>>
    /\ UNCHANGED <<graph_vars, client_vars, extract_vars, scan_vars>>

\* lines 37-38: the loop body is over and os.walk resumes: it descends into the
\* dirnames the body left in the list
Descend ==
    /\ w_dir # <<>> /\ w_files = {}
    /\ w_stack' = <<{Join(w_dir[1], d) :
                       d \in PruneDirnames(Entries(DirsOf(f_isfile), w_dir[1]), f_ignores)}>>
                  \o w_stack
    /\ w_dir' = <<>>
    /\ UNCHANGED <<w_roots, w_ri, w_root, w_files, w_seen, w_yielded>>
    /\ UNCHANGED <<f_path, f_extensions, f_ignores, f_isfile, f_result>>
    /\ UNCHANGED <<graph_vars, client_vars, extract_vars, scan_vars>>

\* os.walk is done with the subdirectories of one directory
Ascend ==
    /\ w_dir = <<>> /\ w_stack # <<>> /\ Head(w_stack) = {}
    /\ w_stack' = Tail(w_stack)
    /\ UNCHANGED <<w_roots, w_ri, w_root, w_dir, w_files, w_seen, w_yielded>>
    /\ UNCHANGED <<f_path, f_extensions, f_ignores, f_isfile, f_result>>
    /\ UNCHANGED <<graph_vars, client_vars, extract_vars, scan_vars>>

WalkNext == NextRoot \/ ListDir \/ VisitFile \/ Descend \/ Ascend

WalkSpec == WalkInit /\ [][WalkNext]_vars

\* the generator is exhausted
WalkDone == w_ri > Len(w_roots) /\ w_stack = <<>> /\ w_dir = <<>>

\* the names of the directories between root and the last component of path
DirsBetween(root, path) ==
    LET parts == SplitOn(From(path, Len(root) + 2), "/")
    IN  {parts[k] : k \in 1..(Len(parts) - 1)}

\* path lies below a subdirectory of root that the walk has to prune
BelowPruned(root, path) ==
    /\ IsUnder(path, root)
    /\ \E d \in DirsBetween(root, path) : d \in f_ignores \/ StartsAt(d, 1, <<".">>)

\* what walk_paths has to yield for one root path
DueFrom(root) ==
    IF root \in f_isfile
    THEN {p \in {root} : ShouldIncludeFile(p, f_extensions, f_ignores, f_isfile)}
    ELSE {p \in f_isfile : /\ IsUnder(p, root)
                           /\ ~BelowPruned(root, p)
                           /\ ShouldIncludeFile(p, f_extensions, f_ignores, f_isfile)}

\* C11: walk_paths yields only paths for which should_include_file is true,
\* and for a directory root it prunes before descending: no directory and no
\* file below a subdirectory whose name is ignored or starts with '.' is ever
\* listed, tested or yielded; the exhausted walk has yielded exactly the
\* included files it could reach that way.
C11_WalkYieldsIncludedAndPrunes ==
    /\ \A i \in DOMAIN w_yielded :
           ShouldIncludeFile(w_yielded[i], f_extensions, f_ignores, f_isfile)
    /\ \A v \in w_seen :
           /\ ~BelowPruned(v[1], v[2])
           /\ v[3] = "dir" /\ v[2] # v[1] =>
                  ~( \/ SplitOn(v[2], "/")[Len(SplitOn(v[2], "/"))] \in f_ignores
                     \/ StartsAt(Basename(v[2]), 1, <<".">>) )
    /\ \A i \in DOMAIN w_yielded : \E v \in w_seen : v[2] = w_yielded[i] /\ v[3] = "file"
    /\ WalkDone =>
           Range(w_yielded) = UNION {DueFrom(w_roots[i]) : i \in DOMAIN w_roots}

\* C11 witness: with .git ignored and the allowlist {.ext}, the walk of
\* directory p is exhausted and has yielded p/src/main.ext and nothing below
\* .git or .cache
C11_Witness ==
    /\ WalkDone
    /\ w_roots = <<<<"p">>>>
    /\ f_extensions.given
    /\ <<".","g","i","t">> \in f_ignores
    /\ <<"p","/","s","r","c","/","m","a","i","n",".","e","x","t">> \in Range(w_yielded)
    /\ <<"p","/","s","r","c","/",".","c","a","c","h","e","/","x",".","e","x","t">> \notin Range(w_yielded)
    /\ <<<<"p">>, Join(<<"p">>, <<"s","r","c">>), "dir">> \in w_seen

-----------------------------------------------------------------------------
\* A corpus: HeuristicExtractor.extract is called on one file after another,
\* in any order, against one graph that starts empty.

\* a second file named any: here foo is a class
FileAnyClass ==
    [path |-> <<"a","n","y">>,
     text |-> <<<<"c","l","a","s","s"," ","f","o","o">>>>]

\* a function and a class of the same name
FileE ==
    [path |-> <<"e",".","p","y">>,
     text |-> <<<<"d","e","f"," ","D","o","g">>,
               <<"c","l","a","s","s"," ","D","o","g"," ","e","x","t","e","n","d","s"," ","A","n","i","m","a","l">>>>]

\* a read of an absolute path, a write to a URL, and a URL after no verb
FileR ==
    [path |-> <<"r",".","p","y">>,
     text |-> <<<<"o","p","e","n","(","'","/","e","/","h","'",")">>,
               <<"p","u","t","(","'","h","t","t","p",":","/","/","h","/","p","'",")">>,
               <<"s","e","e"," ","h","t","t","p",":","/","/","h","/","q">>>>]

CorpusFiles == Files \cup {FileAnyClass, FileE, FileR}

MaxCorpus == 3

CorpusInit ==
    /\ EmptyGraphState /\ IdleClient /\ IdleExtract /\ IdleScan /\ IdleFilter

\* extractor.extract(f.path, f.text, graph) for a file not extracted yet; an
\* exception leaves the graph as far as extract got
ExtractNextFile ==
    /\ Len(c_done) < MaxCorpus
    /\ \E f \in CorpusFiles :
           /\ \A k \in DOMAIN c_done : c_done[k].path # f.path
           /\ \E G \in {HeuristicExtract(f.path, f.text, CurGraph)} :
                  /\ SetGraph(G)
                  /\ c_raised' = IF G.err = "none" THEN c_raised
                                 ELSE c_raised \cup {<<f.path, G.err>>}
           /\ c_done' = Append(c_done, f)
    /\ UNCHANGED <<x_last, x_once, x_runs, client_vars, scan_vars, filter_vars>>

CorpusNext == ExtractNextFile

CorpusSpec == CorpusInit /\ [][CorpusNext]_vars

\* the extract call on file f returned
Returned(f) == \A r \in c_raised : r[1] # f.path

\* the edges from the node of file f of one kind and one tag
FileEdges(f, kind, meta) ==
    {e \in out_edges[NodeIdForFile(f.path)] : e.kind = kind /\ e.meta = SortedItems(meta)}

\* the first whitespace-delimited token after the import keyword, without its
\* trailing punctuation; <<>> when no token follows the keyword
ImportTarget(line) ==
    LET toks == SplitSpace(ImportMatch(line)[1])
    IN  IF toks = <<>> THEN <<>>
        ELSE <<SubSeq(toks[1], 1, LastNotIn(toks[1], Len(toks[1]), {";", "{", "}", "(", ")"}))>>

\* C14: every line that matches the import pattern makes extract create a
\* module node import:<target> and exactly one IMPORTS edge from the file node
\* to it tagged with the stripped line text, <target> being the first token
\* after the keyword without its trailing punctuation; also for lines where
\* only whitespace or punctuation follows the keyword.
C14_EveryImportLineGivesModuleAndEdge ==
    \A k \in DOMAIN c_done : \A i \in DOMAIN c_done[k].text :
        ImportMatch(c_done[k].text[i]) # <<>> =>
            /\ Cardinality(FileEdges(c_done[k], "imports",
                                     [text |-> Strip(c_done[k].text[i])])) = 1
            /\ \A e \in FileEdges(c_done[k], "imports", [text |-> Strip(c_done[k].text[i])]) :
                   /\ e.target \in DOMAIN nodes
                   /\ nodes[e.target].kind = "module"
                   /\ StartsAt(e.target, 1, <<"i","m","p","o","r","t",":">>)
                   /\ \A tg \in Range(ImportTarget(c_done[k].text[i])) :
                          e.target = <<"i","m","p","o","r","t",":">> \o tg

\* key k of node meta has value v
HasTag(meta, k, v) == \E j \in DOMAIN meta : meta[j] = <<k, v>>

\* C15: after extract on a fresh graph, every line recognized as a class
\* definition naming N has the node symbol:<file>:N of kind class with a line
\* tag equal to that line's number, and when the line has an inheritance marker
\* naming B, a node type:B of kind type and an EXTENDS edge from the class node
\* to it; also when other definition lines of the file have the same name N.
C15_ClassLinesGiveClassNodes ==
    (Len(c_done) = 1 /\ c_raised = {}) =>
        \A f \in {c_done[1]} : \A i \in DOMAIN f.text :
            ClassMatch(f.text[i]) # <<>> =>
                \A id \in {NodeIdForSymbol(f.path, ClassMatch(f.text[i])[1])} :
                    /\ id \in DOMAIN nodes
                    /\ nodes[id].kind = "class"
                    /\ HasTag(nodes[id].meta, "line", Str(i))
                    /\ \A B \in Range(ExtendsSearch(f.text[i])) :
                           /\ <<"t","y","p","e",":">> \o B \in DOMAIN nodes
                           /\ nodes[<<"t","y","p","e",":">> \o B].kind = "type"
                           /\ \E e \in out_edges[id] :
                                  /\ e.kind = "extends"
                                  /\ e.target = <<"t","y","p","e",":">> \o B

\* the coarse id of a call target
CalleeId(N) == <<"s","y","m","b","o","l",":","a","n","y",":">> \o N

\* C16: after extracting any files that contain a call N(, in any order, the
\* graph holds the one node symbol:any:N of kind function and name N, and every
\* one of those files has a CALLS edge from its file node to that node tagged
\* with the calling line number.
C16_CallTargetsAliasedAcrossFiles ==
    \A k \in DOMAIN c_done : \A i \in DOMAIN c_done[k].text :
        Returned(c_done[k]) =>
            \A N \in Range(CallsFrom(c_done[k].text[i], 1)) :
                /\ CalleeId(N) \in DOMAIN nodes
                /\ nodes[CalleeId(N)].kind = "function"
                /\ nodes[CalleeId(N)].name = N
                /\ \E e \in FileEdges(c_done[k], "calls", [line |-> Str(i)]) :
                       e.target = CalleeId(N)

\* the maximal runs of characters other than whitespace, quotes and ')' in
\* line, from position i on
RECURSIVE Runs(_, _)
Runs(line, i) ==
    LET b == FirstNotIn(line, i, ResourceStop)
        e == FirstNotIn(line, b, Range(line) \ ResourceStop)
    IN  IF b > Len(line) THEN <<>>
        ELSE <<SubSeq(line, b, e - 1)>> \o Runs(line, e)

\* the resource literals written on a line: the runs that are an absolute path
\* or an http(s) URL
ResourceLiterals(line) ==
    {r \in Range(Runs(line, 1)) :
        \/ StartsAt(r, 1, <<"/">>)
        \/ StartsAt(r, 1, <<"h","t","t","p",":","/","/">>)
        \/ StartsAt(r, 1, <<"h","t","t","p","s",":","/","/">>)}

\* the id of a resource node
ResourceId(L) == <<"r","e","s","o","u","r","c","e",":">> \o L

\* C17: for every resource literal (absolute path or http(s) URL) on a line,
\* extract creates the node resource:<literal>, with a WRITES edge from the
\* file node iff the line's leading token is a write verb, a READS edge iff it
\* is a read verb, and never both.
C17_ResourceLiteralsGiveNodesAndVerbEdges ==
    \A k \in DOMAIN c_done : \A i \in DOMAIN c_done[k].text :
        Returned(c_done[k]) =>
            \A L \in ResourceLiterals(c_done[k].text[i]) :
                /\ ResourceId(L) \in DOMAIN nodes
                /\ (\E e \in FileEdges(c_done[k], "writes", [line |-> Str(i)]) :
                        e.target = ResourceId(L))
                   <=> Verb(c_done[k].text[i]) \in WRITE_VERBS
                /\ (\E e \in FileEdges(c_done[k], "reads", [line |-> Str(i)]) :
                        e.target = ResourceId(L))
                   <=> Verb(c_done[k].text[i]) \in READ_VERBS
                /\ ~(Verb(c_done[k].text[i]) \in WRITE_VERBS
                     /\ Verb(c_done[k].text[i]) \in READ_VERBS)

====
